---- MODULE Spec2Model ----
(***************************************************************************)
(* The booking register of 41_parallelo_app.py (the iCal variant, lines    *)
(* 359-872): the SQLite table `bookings`, the overlap query, the occupancy *)
(* projection, the query filters and the Booking.com iCal import.          *)
(*                                                                         *)
(* Representation.  A Python `date` is a day ordinal of a small calendar   *)
(* that starts on 2024-05-30 (so that it crosses a month end): day 1 is    *)
(* 2024-05-30, day 3 is 2024-06-01;                                        *)
(* the table holds the ISO text the sqlite3 date adapter writes, as the    *)
(* tuple <<year, month, day>>, and SQL compares it lexicographically.      *)
(* Free text (guest_name, email, phone, notes, search, summary) is a       *)
(* sequence of one-character strings.  SQL NULL / Python None is NullText  *)
(* for free text, NullStr for the enumerated columns and NullInt for the   *)
(* numbers.  A Python dict is a TLA+ record whose DOMAIN is the set of     *)
(* keys present.  The columns created_at and updated_at are left out: no   *)
(* operation reads them.  A row of ical_endpoints is [room, url].          *)
(***************************************************************************)
EXTENDS Integers, Sequences, FiniteSets, TLC

VARIABLES
    bookings,   \* the rows of table bookings
    seq,        \* sqlite_sequence of the AUTOINCREMENT key: the largest id ever assigned
    imported,   \* history: <<id, uid>> of every row inserted by import_ics_for_room
    deleted,    \* history: the ids delete_booking was asked for, and those it removed
    last,       \* what the last handler was given and what it returned
    ical_endpoints  \* the rows of table ical_endpoints

vars == <<bookings, seq, imported, deleted, last, ical_endpoints>>

\* ------------------------------------------------------------------ bounds
MaxId == 2

\* ------------------------------------------------------------------ values
NullStr == "NULL"
NullText == <<"NULL">>
NullInt == -1
NoId == 0
NoDate == 0

\* The days the inputs are drawn from: 2024-05-30 .. 2024-06-02.
Days == 1..4

Max(a, b) == IF a >= b THEN a ELSE b

\* sqlite3's date adapter: date.isoformat(), here <<year, month, day>>.
IsoDate(d) == IF d <= 2 THEN <<2024, 5, 29 + d>> ELSE <<2024, 6, d - 2>>

\* sqlite3's DATE converter followed by pandas parse_dates: back to the day.
ParseDate(t) == IF t[2] = 5 THEN t[3] - 29 ELSE t[3] + 2

\* SQL `date(a) < date(b)`: the comparison of two ISO texts.
DateLt(a, b) ==
    \/ a[1] < b[1]
    \/ a[1] = b[1] /\ a[2] < b[2]
    \/ a[1] = b[1] /\ a[2] = b[2] /\ a[3] < b[3]

\* dict.get(k, default)
Get(data, k, default) == IF k \in DOMAIN data THEN data[k] ELSE default

Ids(bks) == {b.id : b \in bks}

\* ------------------------------------------------------------------ store
\* The largest rowid in the table, 0 when it is empty.
MaxRowid(bks) ==
    IF bks = {} THEN 0 ELSE CHOOSE m \in Ids(bks) : \A i \in Ids(bks) : i <= m

\* INTEGER PRIMARY KEY without AUTOINCREMENT: one more than the largest rowid present.
RowidReuse(bks, s) == MaxRowid(bks) + 1

\* A key generator that fills holes: the smallest id no row holds.
RowidSmallestFree(bks, s) ==
    CHOOSE i \in 1..(Cardinality(bks) + 1) :
        /\ i \notin Ids(bks)
        /\ \A j \in 1..(i - 1) : j \in Ids(bks)

\* INTEGER PRIMARY KEY AUTOINCREMENT: one more than the largest rowid ever
\* assigned (sqlite_sequence), also when that row is gone.
NextRowid(bks, s) == Max(s, MaxRowid(bks)) + 1

\* insert_booking drops the provenance pair (the table of the first variant).
NewRowNoProvenance(id, data) ==
    [id |-> id,
     guest_name |-> data.guest_name,
     email |-> Get(data, "email", NullText),
     phone |-> Get(data, "phone", NullText),
     source |-> Get(data, "source", NullStr),
     room |-> Get(data, "room", NullStr),
     status |-> Get(data, "status", NullStr),
     check_in |-> IsoDate(data.check_in),
     check_out |-> IsoDate(data.check_out),
     guests |-> Get(data, "guests", 1),
     price |-> Get(data, "price", 0),
     notes |-> Get(data, "notes", NullText),
     external_source |-> NullStr,
     external_uid |-> NullText]

\* The row insert_booking(data) writes under key id.
NewRow(id, data) ==
    [id |-> id,
     guest_name |-> data.guest_name,
     email |-> Get(data, "email", NullText),
     phone |-> Get(data, "phone", NullText),
     source |-> Get(data, "source", NullStr),
     room |-> Get(data, "room", NullStr),
     status |-> Get(data, "status", NullStr),
     check_in |-> IsoDate(data.check_in),
     check_out |-> IsoDate(data.check_out),
     guests |-> Get(data, "guests", 1),
     price |-> Get(data, "price", 0),
     notes |-> Get(data, "notes", NullText),
     external_source |-> Get(data, "external_source", NullStr),
     external_uid |-> Get(data, "external_uid", NullText)]

\* The row UPDATE ... SET <all thirteen columns> leaves for row b.
UpdatedRow(b, data) ==
    [id |-> b.id,
     guest_name |-> Get(data, "guest_name", NullText),
     email |-> Get(data, "email", NullText),
     phone |-> Get(data, "phone", NullText),
     source |-> Get(data, "source", NullStr),
     room |-> Get(data, "room", NullStr),
     status |-> Get(data, "status", NullStr),
     check_in |-> IsoDate(data.check_in),
     check_out |-> IsoDate(data.check_out),
     guests |-> Get(data, "guests", NullInt),
     price |-> Get(data, "price", NullInt),
     notes |-> Get(data, "notes", NullText),
     external_source |-> Get(data, "external_source", NullStr),
     external_uid |-> Get(data, "external_uid", NullText)]

\* UPDATE without its WHERE clause: every row is rewritten.
UpdateAllRows(bks, id, data) == {UpdatedRow(b, data) : b \in bks}

\* update_booking: UPDATE bookings SET ... WHERE id = ?
UpdateRows(bks, id, data) ==
    {IF b.id = id THEN UpdatedRow(b, data) ELSE b : b \in bks}

\* delete_booking: DELETE FROM bookings WHERE id = ?
DeleteRows(bks, id) == {b \in bks : b.id # id}

\* ------------------------------------------------------------------ text
UpperCase == <<"A", "B", "C", "D", "E", "F", "G", "H", "I", "J", "K", "L", "M",
               "N", "O", "P", "Q", "R", "S", "T", "U", "V", "W", "X", "Y", "Z">>

LowerCase == <<"a", "b", "c", "d", "e", "f", "g", "h", "i", "j", "k", "l", "m",
               "n", "o", "p", "q", "r", "s", "t", "u", "v", "w", "x", "y", "z">>

\* Case folding of LIKE and of re.I on the ASCII letters.
Lower(c) ==
    IF \E i \in DOMAIN UpperCase : UpperCase[i] = c
    THEN LowerCase[CHOOSE i \in DOMAIN UpperCase : UpperCase[i] = c]
    ELSE c

\* SQLite's LIKE: `%` matches any run of characters, `_` any one character,
\* every other character itself, ASCII letters without regard to case.
RECURSIVE Like(_, _)
Like(pat, s) ==
    IF pat = <<>> THEN s = <<>>
    ELSE IF Head(pat) = "%"
         THEN Like(Tail(pat), s) \/ (s # <<>> /\ Like(pat, Tail(s)))
         ELSE /\ s # <<>>
              /\ Head(pat) = "_" \/ Lower(Head(pat)) = Lower(Head(s))
              /\ Like(Tail(pat), Tail(s))

\* `col LIKE ?`: NULL LIKE anything is NULL, which WHERE treats as false.
SqlLike(col, pat) == col # NullText /\ Like(pat, col)

\* ------------------------------------------------------------------ queries
\* The WHERE clause fetch_bookings builds; None is NoDate / NullStr / NullText.
Selected(b, start, end, status, room, search) ==
    /\ start # NoDate => DateLt(IsoDate(start), b.check_out)
    /\ end # NoDate => DateLt(b.check_in, IsoDate(end))
    /\ (status # NullStr /\ status # "" /\ status # "Tutte")
          => (b.status # NullStr /\ b.status = status)
    /\ (room # NullStr /\ room # "" /\ room # "Tutte")
          => (b.room # NullStr /\ b.room = room)
    /\ (search # NullText /\ search # <<>>)
          => LET like == <<"%">> \o search \o <<"%">>
             IN \/ SqlLike(b.guest_name, like)
                \/ SqlLike(b.email, like)
                \/ SqlLike(b.phone, like)
                \/ SqlLike(b.notes, like)

\* The rows fetch_bookings selects.
FetchBookings(bks, start, end, status, room, search) ==
    {b \in bks : Selected(b, start, end, status, room, search)}

\* ORDER BY check_in ASC: the orders in which the selected rows may come back
\* (rows with the same check_in in any order).
FetchOrders(bks, start, end, status, room, search) ==
    LET S == FetchBookings(bks, start, end, status, room, search)
        n == Cardinality(S)
    IN {s \in [1..n -> S] :
            /\ \A i, j \in 1..n : i # j => s[i] # s[j]
            /\ \A i, j \in 1..n : i < j => ~DateLt(s[j].check_in, s[i].check_in)}

\* has_overlap that counts the shared boundary day (<= and >= for < and >).
ConflictsClosed(bks, check_in, check_out, room, exclude_id) ==
    {b \in bks :
        /\ b.room # NullStr /\ b.room = room
        /\ b.status # NullStr /\ b.status # "Annullata"
        /\ ~DateLt(IsoDate(check_out), b.check_in)
        /\ ~DateLt(b.check_out, IsoDate(check_in))
        /\ exclude_id # NoId => b.id # exclude_id}

\* has_overlap: the conflicting rows (the boolean is Conflicts(...) # {}).
Conflicts(bks, check_in, check_out, room, exclude_id) ==
    {b \in bks :
        /\ b.room # NullStr /\ b.room = room
        /\ b.status # NullStr /\ b.status # "Annullata"
        /\ DateLt(b.check_in, IsoDate(check_out))
        /\ DateLt(IsoDate(check_in), b.check_out)
        /\ exclude_id # NoId => b.id # exclude_id}

\* pd.date_range(b.check_in, b.check_out - 1 day): the nights of a row.
Nights(b) == ParseDate(b.check_in)..(ParseDate(b.check_out) - 1)

\* The rows occupancy_matrix marks: those fetch_bookings(period_start,
\* period_end) returns whose room is a column.
Marked(bks, period_start, period_end, rooms) ==
    {b \in FetchBookings(bks, period_start, period_end, NullStr, NullStr, NullText) :
        b.room \in rooms}

\* occupancy_matrix: `mat.loc[rng, b.room] = 1` raises KeyError when rng holds a
\* date that is not in the index; otherwise the grid date -> room -> 0/1.
OccupancyMatrix(bks, period_start, period_end, rooms) ==
    LET M == Marked(bks, period_start, period_end, rooms)
    IN IF \E b \in M : ~(Nights(b) \subseteq period_start..period_end)
       THEN [error |-> "KeyError"]
       ELSE [error |-> "",
             mat |-> [d \in period_start..period_end |->
                        [r \in rooms |->
                            IF \E b \in M : b.room = r /\ d \in Nights(b)
                            THEN 1 ELSE 0]]]

\* ------------------------------------------------------------------ rooms
Defaults == <<"Camera 1", "Camera 2", "Appartamento">>

\* Every room name of the model, in the order ORDER BY room gives (NULL first).
RoomOrder == <<NullStr, "Appartamento", "Camera 1", "Camera 2", "Suite">>

InSeq(x, s) == \E i \in DOMAIN s : s[i] = x

\* rooms_list without `if d not in existing`: every default is appended.
RoomsListAppendAll(bks) ==
    LET Present(r) == \E b \in bks : b.room = r
    IN SelectSeq(RoomOrder, Present) \o Defaults

\* rooms_list: SELECT DISTINCT room ... ORDER BY room, then the missing defaults.
RoomsList(bks) ==
    LET Present(r) == \E b \in bks : b.room = r
        existing == SelectSeq(RoomOrder, Present)
        Missing(d) == ~InSeq(d, existing)
    IN existing \o SelectSeq(Defaults, Missing)

\* ------------------------------------------------------------------ iCal import
Tokens ==
    << <<"P", "r", "e", "n", "o", "t", "a", "z", "i", "o", "n", "e">>,
       <<"R", "e", "s", "e", "r", "v", "a", "t", "i", "o", "n">>,
       <<"B", "o", "o", "k", "i", "n", "g">>,
       <<"G", "u", "e", "s", "t">>,
       <<"O", "s", "p", "i", "t", "e">>,
       <<"#">> >>

OspiteBooking == <<"O", "s", "p", "i", "t", "e", " ", "B", "o", "o", "k", "i", "n", "g">>

ImportNote == <<"I", "m", "p", "o", "r", "t", " ", "i", "C", "a", "l">>

StartsWith(s, tok) ==
    /\ Len(s) >= Len(tok)
    /\ \A i \in 1..Len(tok) : Lower(s[i]) = Lower(tok[i])

\* re.sub(<tokens>, "", s, flags=re.I)
RECURSIVE RemoveTokens(_)
RemoveTokens(s) ==
    IF s = <<>> THEN <<>>
    ELSE IF \E k \in DOMAIN Tokens : StartsWith(s, Tokens[k])
         THEN LET first == CHOOSE n \in DOMAIN Tokens :
                              /\ StartsWith(s, Tokens[n])
                              /\ \A j \in 1..(n - 1) : ~StartsWith(s, Tokens[j])
              IN RemoveTokens(SubSeq(s, Len(Tokens[first]) + 1, Len(s)))
         ELSE <<Head(s)>> \o RemoveTokens(Tail(s))

\* str.strip()
RECURSIVE Strip(_)
Strip(s) ==
    IF s = <<>> THEN <<>>
    ELSE IF Head(s) = " " THEN Strip(Tail(s))
    ELSE IF s[Len(s)] = " " THEN Strip(SubSeq(s, 1, Len(s) - 1))
    ELSE s

\* parse_guest_from_summary
ParseGuest(summary) ==
    IF summary = <<>> THEN OspiteBooking
    ELSE LET g == Strip(RemoveTokens(summary))
         IN IF g = <<>> THEN OspiteBooking ELSE g

\* uid = ev.uid or f"{room}-{begin}-{end}".  A feed's UID u is <<"uid", u>>, the
\* synthesized key is <<"syn", room, begin, end>>.
EventUid(room, ev) ==
    IF ev.uid # NullText /\ ev.uid # <<>> THEN ev.uid
    ELSE <<"syn", room, ev.begin, ev.end>>

\* The row the INSERT of import_ics_for_room writes for event ev.
ImportedRow(id, room, ev) ==
    [id |-> id,
     guest_name |-> ParseGuest(ev.name),
     email |-> NullText,
     phone |-> NullText,
     source |-> "Booking",
     room |-> room,
     status |-> "Confermata",
     check_in |-> IsoDate(ev.begin),
     check_out |-> IsoDate(ev.end),
     guests |-> 2,
     price |-> 0,
     notes |-> ImportNote,
     external_source |-> "booking_com_ical",
     external_uid |-> EventUid(room, ev)]

\* The lookup that finds nothing: every event with dates is inserted again.
NeverStored(bks, uid) == FALSE

\* SELECT id FROM bookings WHERE external_source=? AND external_uid=?
AlreadyStored(bks, uid) ==
    \E b \in bks : b.external_source = "booking_com_ical" /\ b.external_uid = uid

\* A reconciler that follows the feed: the stored booking of an event that is
\* found again takes the event's dates.
ImportEventUpdating(acc, room, ev) ==
    IF ev.begin = NoDate \/ ev.end = NoDate THEN acc
    ELSE IF AlreadyStored(acc.bookings, EventUid(room, ev))
    THEN [acc EXCEPT !.bookings =
            {IF b.external_source = "booking_com_ical"
                   /\ b.external_uid = EventUid(room, ev)
             THEN [b EXCEPT !.check_in = IsoDate(ev.begin),
                            !.check_out = IsoDate(ev.end)]
             ELSE b : b \in acc.bookings}]
    ELSE LET id == NextRowid(acc.bookings, acc.seq)
         IN [bookings |-> acc.bookings \cup {ImportedRow(id, room, ev)},
             seq |-> id,
             created |-> acc.created + 1,
             pairs |-> acc.pairs \cup {<<id, EventUid(room, ev)>>}]

\* A loop that counts every event with dates, also the ones it skips.
ImportEventCountingSkipped(acc, room, ev) ==
    IF ev.begin = NoDate \/ ev.end = NoDate THEN acc
    ELSE IF AlreadyStored(acc.bookings, EventUid(room, ev))
    THEN [acc EXCEPT !.created = @ + 1]
    ELSE LET id == NextRowid(acc.bookings, acc.seq)
         IN [bookings |-> acc.bookings \cup {ImportedRow(id, room, ev)},
             seq |-> id,
             created |-> acc.created + 1,
             pairs |-> acc.pairs \cup {<<id, EventUid(room, ev)>>}]

\* A lookup that is keyed on the room as well: an event is skipped only when
\* its uid is stored for the room being synced.
ImportEventPerRoom(acc, room, ev) ==
    IF ev.begin = NoDate \/ ev.end = NoDate THEN acc
    ELSE IF \E b \in acc.bookings :
                /\ b.external_source = "booking_com_ical"
                /\ b.external_uid = EventUid(room, ev)
                /\ b.room = room
    THEN acc
    ELSE LET id == NextRowid(acc.bookings, acc.seq)
         IN [bookings |-> acc.bookings \cup {ImportedRow(id, room, ev)},
             seq |-> id,
             created |-> acc.created + 1,
             pairs |-> acc.pairs \cup {<<id, EventUid(room, ev)>>}]

\* One turn of the loop over cal.events; acc is the state of the run so far.
ImportEvent(acc, room, ev) ==
    IF ev.begin = NoDate \/ ev.end = NoDate THEN acc
    ELSE IF AlreadyStored(acc.bookings, EventUid(room, ev)) THEN acc
    ELSE LET id == NextRowid(acc.bookings, acc.seq)
         IN [bookings |-> acc.bookings \cup {ImportedRow(id, room, ev)},
             seq |-> id,
             created |-> acc.created + 1,
             pairs |-> acc.pairs \cup {<<id, EventUid(room, ev)>>}]

\* The loop of import_ics_for_room over the events in iteration order evs.
RECURSIVE ImportEvents(_, _, _)
ImportEvents(acc, room, evs) ==
    IF evs = <<>> THEN acc
    ELSE ImportEvents(ImportEvent(acc, room, Head(evs)), room, Tail(evs))

\* cal.events is a set: the orders in which the loop may meet its events.
IterationOrders(feed) ==
    LET n == Cardinality(feed)
    IN {s \in [1..n -> feed] : \A i, j \in 1..n : i # j => s[i] # s[j]}

\* ------------------------------------------------------------------ iCal endpoints
\* A plain INSERT into a table without the key on room: the old row stays.
UpsertAppend(rows, room, url) == rows \cup {[room |-> room, url |-> url]}

\* upsert_ical_endpoint: INSERT ... ON CONFLICT(room) DO UPDATE SET url=excluded.url
UpsertIcalEndpoint(rows, room, url) ==
    {r \in rows : r.room # room} \cup {[room |-> room, url |-> url]}

\* get_ical_map: {r[0]: r[1] for r in rows}
GetIcalMap(rows) ==
    [room \in {r.room : r \in rows} |-> (CHOOSE r \in rows : r.room = room).url]

\* `if save_urls:` the loop over url_inputs.items(), in the order of rooms.
RECURSIVE SaveUrlInputs(_, _, _)
SaveUrlInputs(rows, rooms, url_inputs) ==
    IF rooms = <<>> THEN rows
    ELSE LET r == Head(rooms)
             u == Strip(url_inputs[r])
         IN SaveUrlInputs(IF u # <<>> THEN UpsertIcalEndpoint(rows, r, u) ELSE rows,
                          Tail(rooms), url_inputs)

\* The sync button whose loop stops at the first room that fails: the rooms
\* after it are not synced.
SyncRoomAborting(acc, room, outcome) ==
    IF \E i \in DOMAIN acc.runs : acc.runs[i].failed THEN acc
    ELSE IF outcome.failed
    THEN [acc EXCEPT !.runs = Append(@, [room |-> room, failed |-> TRUE,
                                         evs |-> <<>>, ret |-> 0,
                                         before |-> acc.bookings,
                                         after |-> acc.bookings])]
    ELSE LET r == ImportEvents([bookings |-> acc.bookings, seq |-> acc.seq,
                                created |-> 0, pairs |-> {}], room, outcome.evs)
         IN [bookings |-> r.bookings,
             seq |-> r.seq,
             pairs |-> acc.pairs \cup r.pairs,
             total |-> acc.total + r.created,
             runs |-> Append(acc.runs, [room |-> room, failed |-> FALSE,
                                        evs |-> outcome.evs, ret |-> r.created,
                                        before |-> acc.bookings,
                                        after |-> r.bookings])]

\* One turn of `for r, u in get_ical_map().items(): count_total +=
\* import_ics_for_room(r, u)`.  outcome.failed: requests.get, raise_for_status
\* or Calendar(...) raised, the function reported the error and returned 0;
\* otherwise outcome.evs is cal.events in iteration order.
SyncRoom(acc, room, outcome) ==
    IF outcome.failed
    THEN [acc EXCEPT !.runs = Append(@, [room |-> room, failed |-> TRUE,
                                         evs |-> <<>>, ret |-> 0,
                                         before |-> acc.bookings,
                                         after |-> acc.bookings])]
    ELSE LET r == ImportEvents([bookings |-> acc.bookings, seq |-> acc.seq,
                                created |-> 0, pairs |-> {}], room, outcome.evs)
         IN [bookings |-> r.bookings,
             seq |-> r.seq,
             pairs |-> acc.pairs \cup r.pairs,
             total |-> acc.total + r.created,
             runs |-> Append(acc.runs, [room |-> room, failed |-> FALSE,
                                        evs |-> outcome.evs, ret |-> r.created,
                                        before |-> acc.bookings,
                                        after |-> r.bookings])]

\* The loop of the sync button over the items of get_ical_map().
RECURSIVE SyncItems(_, _, _)
SyncItems(acc, items, outcomes) ==
    IF items = <<>> THEN acc
    ELSE SyncItems(SyncRoom(acc, Head(items), outcomes[Head(items)]),
                   Tail(items), outcomes)

\* ------------------------------------------------------------------ inputs
Mario == <<"M", "a", "r", "i", "o">>

GuestAnna == <<"G", "u", "e", "s", "t", " ", "A", "n", "n", "a">>

\* The dict the two forms hand to the store: eleven keys, no provenance pair.
FormDict(guest_name, room, status, check_in, check_out) ==
    [guest_name |-> guest_name, email |-> <<>>, phone |-> <<>>,
     source |-> "Diretta", room |-> room, status |-> status,
     check_in |-> check_in, check_out |-> check_out,
     guests |-> 2, price |-> 0, notes |-> <<>>]

\* Events of a feed, begin and end being ev.begin.date() and ev.end.date(): u1,
\* u1 again with other dates, one without UID, one without an end date.
EventU1 == [uid |-> <<"uid", "u1">>, begin |-> 1, end |-> 3, name |-> GuestAnna]

EventU1Moved == [uid |-> <<"uid", "u1">>, begin |-> 2, end |-> 4, name |-> GuestAnna]

EventNoUid == [uid |-> NullText, begin |-> 1, end |-> 2, name |-> <<"#">>]

EventNoEnd == [uid |-> <<"uid", "u3">>, begin |-> 1, end |-> NoDate, name |-> <<>>]

\* A timed event that begins and ends on one day (10:00-18:00 of 2024-05-31):
\* ev.begin.date() and ev.end.date() are the same day.
EventSameDay == [uid |-> <<"uid", "u2">>, begin |-> 2, end |-> 2, name |-> Mario]

\* The feeds a URL may serve.
Feeds ==
    {{EventU1}, {EventU1Moved}, {EventU1, EventU1Moved}, {EventNoUid, EventNoEnd},
     {EventSameDay}}

SyncRooms == {"Camera 1", "Camera 2"}

SyncForms == {FormDict(Mario, "Camera 1", "Confermata", 1, 2)}

\* ------------------------------------------------------------------ handlers
Init ==
    /\ bookings = {}
    /\ seq = 0
    /\ imported = {}
    /\ deleted = [asked |-> {}, removed |-> {}]
    /\ last = [op |-> "init"]
    /\ ical_endpoints = {}

\* The new-booking form blocked by a conflict: nothing is written.
SubmitBlocking(bks, s, f, exclude_id) ==
    LET c == Conflicts(bks, f.check_in, f.check_out, f.room, exclude_id)
    IN IF f.guest_name = <<>>
       THEN [bookings |-> bks, seq |-> s, error |-> "name", warned |-> FALSE,
             conflicts |-> {}, ret |-> NoId]
       ELSE IF f.check_out <= f.check_in
       THEN [bookings |-> bks, seq |-> s, error |-> "dates", warned |-> FALSE,
             conflicts |-> {}, ret |-> NoId]
       ELSE IF c # {} /\ f.status # "Annullata"
       THEN [bookings |-> bks, seq |-> s, error |-> "", warned |-> TRUE,
             conflicts |-> Ids(c), ret |-> NoId]
       ELSE [bookings |-> bks \cup {NewRow(NextRowid(bks, s), f)},
             seq |-> NextRowid(bks, s), error |-> "", warned |-> FALSE,
             conflicts |-> Ids(c), ret |-> NextRowid(bks, s)]

\* `if submitted:` of new_booking_form, lines 670-696.
SubmitNew(bks, s, f, exclude_id) ==
    IF f.guest_name = <<>>
    THEN [bookings |-> bks, seq |-> s, error |-> "name", warned |-> FALSE,
          conflicts |-> {}, ret |-> NoId]
    ELSE IF f.check_out <= f.check_in
    THEN [bookings |-> bks, seq |-> s, error |-> "dates", warned |-> FALSE,
          conflicts |-> {}, ret |-> NoId]
    ELSE LET c == Conflicts(bks, f.check_in, f.check_out, f.room, exclude_id)
             id == NextRowid(bks, s)
         IN [bookings |-> bks \cup {NewRow(id, f)}, seq |-> id, error |-> "",
             warned |-> (c # {} /\ f.status # "Annullata"),
             conflicts |-> Ids(c), ret |-> id]

NewBookingSubmit(Forms) ==
    \E f \in Forms :
        /\ InSeq(f.room, RoomsList(bookings))
        /\ LET r == SubmitNew(bookings, seq, f, NoId)
           IN /\ r.seq <= MaxId
              /\ bookings' = r.bookings
              /\ seq' = r.seq
              /\ last' = [op |-> "new_booking_form", data |-> f, error |-> r.error,
                          warned |-> r.warned, conflicts |-> r.conflicts,
                          ret |-> r.ret]
        /\ UNCHANGED <<imported, deleted, ical_endpoints>>

\* `if do_update:` of edit_form, lines 832-859.
SubmitEdit(bks, sel_id, f) ==
    IF f.guest_name = <<>>
    THEN [bookings |-> bks, error |-> "name", warned |-> FALSE, conflicts |-> {}]
    ELSE IF f.check_out <= f.check_in
    THEN [bookings |-> bks, error |-> "dates", warned |-> FALSE, conflicts |-> {}]
    ELSE LET c == Conflicts(bks, f.check_in, f.check_out, f.room, sel_id)
         IN [bookings |-> UpdateRows(bks, sel_id, f), error |-> "",
             warned |-> (c # {} /\ f.status # "Annullata"),
             conflicts |-> Ids(c)]

EditSubmit(Forms) ==
    \E sel_id \in Ids(bookings), f \in Forms :
        /\ InSeq(f.room, RoomsList(bookings))
        /\ LET r == SubmitEdit(bookings, sel_id, f)
           IN /\ bookings' = r.bookings
              /\ last' = [op |-> "edit_form", id |-> sel_id, data |-> f,
                          error |-> r.error, warned |-> r.warned,
                          conflicts |-> r.conflicts]
        /\ UNCHANGED <<seq, imported, deleted, ical_endpoints>>

\* `if do_delete:` of edit_form, lines 861-863.
DeleteSubmit ==
    \E sel_id \in Ids(bookings) :
        /\ bookings' = DeleteRows(bookings, sel_id)
        /\ deleted' = [asked |-> deleted.asked \cup {sel_id},
                       removed |-> deleted.removed \cup {sel_id}]
        /\ last' = [op |-> "delete_booking", id |-> sel_id]
        /\ UNCHANGED <<seq, imported, ical_endpoints>>

\* import_ics_for_room(room, url) when the download and the parse succeed and
\* the feed at url holds the events `feed`.
SyncFeed(Rooms, FeedSet) ==
    \E room \in Rooms, feed \in FeedSet :
        \E evs \in IterationOrders(feed) :
            LET r == ImportEvents([bookings |-> bookings, seq |-> seq,
                                   created |-> 0, pairs |-> {}], room, evs)
            IN /\ r.seq <= MaxId
               /\ bookings' = r.bookings
               /\ seq' = r.seq
               /\ imported' = imported \cup r.pairs
               /\ last' = [op |-> "import_ics_for_room", room |-> room,
                           feed |-> feed, ret |-> r.created,
                           rerun |-> /\ last.op = "import_ics_for_room"
                                     /\ last.room = room
                                     /\ last.feed = feed]
               /\ UNCHANGED <<deleted, ical_endpoints>>

\* import_ics_for_room(room, url) when requests.get or Calendar(...) raises.
SyncFails(Rooms) ==
    \E room \in Rooms :
        /\ last' = [op |-> "import_failed", room |-> room, ret |-> 0]
        /\ UNCHANGED <<bookings, seq, imported, deleted, ical_endpoints>>

\* The application: the two forms, the delete button and the iCal import.
Next ==
    \/ NewBookingSubmit(SyncForms)
    \/ EditSubmit(SyncForms)
    \/ DeleteSubmit
    \/ SyncFeed(SyncRooms, Feeds)
    \/ SyncFails(SyncRooms)

Spec == Init /\ [][Next]_vars

\* ------------------------------------------------------------------ the store, called directly
Provenance == [external_source |-> "booking_com_ical", external_uid |-> <<"uid", "u1">>]

\* Dicts for insert_booking / update_booking: the form's eleven keys, the same
\* with a provenance pair, and one that leaves the optional keys out.
StoreDicts ==
    {FormDict(Mario, "Camera 1", "Confermata", 1, 2),
     FormDict(Mario, "Camera 2", "In attesa", 2, 4) @@ Provenance,
     [guest_name |-> GuestAnna, room |-> "Suite", status |-> "Annullata",
      check_in |-> 3, check_out |-> 4]}

StoreFeeds == {{EventU1}}

\* insert_booking(data)
InsertBooking(Dicts) ==
    \E data \in Dicts :
        /\ {"guest_name", "check_in", "check_out"} \subseteq DOMAIN data
        /\ data.guest_name # NullText
        /\ seq < MaxId
        /\ LET id == NextRowid(bookings, seq)
           IN /\ bookings' = bookings \cup {NewRow(id, data)}
              /\ seq' = id
              /\ last' = [op |-> "insert_booking", data |-> data, ret |-> id]
        /\ UNCHANGED <<imported, deleted, ical_endpoints>>

\* update_booking(booking_id, data)
UpdateBooking(Dicts) ==
    \E booking_id \in 1..MaxId, data \in Dicts :
        /\ {"guest_name", "check_in", "check_out"} \subseteq DOMAIN data
        /\ bookings' = UpdateRows(bookings, booking_id, data)
        /\ last' = [op |-> "update_booking", id |-> booking_id, data |-> data]
        /\ UNCHANGED <<seq, imported, deleted, ical_endpoints>>

\* delete_booking(booking_id)
DeleteBooking ==
    \E booking_id \in 1..MaxId :
        /\ bookings' = DeleteRows(bookings, booking_id)
        /\ deleted' = [asked |-> deleted.asked \cup {booking_id},
                       removed |-> deleted.removed \cup
                                     ({booking_id} \cap Ids(bookings))]
        /\ last' = [op |-> "delete_booking", id |-> booking_id]
        /\ UNCHANGED <<seq, imported, ical_endpoints>>

NextStore ==
    \/ InsertBooking(StoreDicts)
    \/ UpdateBooking(StoreDicts)
    \/ DeleteBooking
    \/ SyncFeed({"Camera 1"}, StoreFeeds)

SpecStore == Init /\ [][NextStore]_vars

\* ------------------------------------------------------------------ the forms and the overlap warning
\* What the user may put in a form: stays that touch (1-3, 3-4), overlap
\* (1-3, 2-4), a cancelled one, another room, and two invalid forms.
OverlapForms ==
    {FormDict(Mario, "Camera 1", "Confermata", 1, 3),
     FormDict(Mario, "Camera 1", "In attesa", 3, 4),
     FormDict(Mario, "Camera 1", "Annullata", 2, 4),
     FormDict(GuestAnna, "Camera 2", "Confermata", 2, 4),
     FormDict(<<>>, "Camera 1", "Confermata", 1, 2),
     FormDict(Mario, "Camera 1", "Confermata", 3, 3),
     FormDict(Mario, "Camera 2", "Confermata", 4, 2)}

NextForms ==
    \/ NewBookingSubmit(OverlapForms)
    \/ EditSubmit(OverlapForms)
    \/ DeleteSubmit

SpecForms == Init /\ [][NextForms]_vars

\* ------------------------------------------------------------------ the iCal endpoints and the sync button
\* What the user may leave in the URL field of a room: a blank, a URL, a URL
\* after a blank.
UrlTexts == {<<" ">>, <<"a">>, <<" ", "b">>}

\* The fields of ical_form, one per room of rooms_list(); the fields of the
\* rooms outside SyncRooms stay empty.
UrlInputs(rooms) ==
    {f \in [{rooms[i] : i \in DOMAIN rooms} -> UrlTexts \cup {<<>>}] :
        \A r \in DOMAIN f : IF r \in SyncRooms THEN f[r] \in UrlTexts ELSE f[r] = <<>>}

\* The feeds the configured URLs may serve when the button is pressed.
SyncAllFeeds == {{EventU1}, {EventU1Moved}}

\* What may happen to one room's download: it fails, or it yields the events
\* of a feed in some iteration order.
Outcomes(FeedSet) ==
    {[failed |-> TRUE, evs |-> <<>>]} \cup
    {[failed |-> FALSE, evs |-> evs] :
        evs \in UNION {IterationOrders(feed) : feed \in FeedSet}}

\* `if save_urls:` of ical_form, lines 701-712.
SaveUrls ==
    LET available_rooms == RoomsList(bookings)
    IN \E url_inputs \in UrlInputs(available_rooms) :
        /\ ical_endpoints' = SaveUrlInputs(ical_endpoints, available_rooms, url_inputs)
        /\ last' = [op |-> "ical_form", ical_map |-> GetIcalMap(ical_endpoints),
                    url_inputs |-> url_inputs]
        /\ UNCHANGED <<bookings, seq, imported, deleted>>

\* The button "Sincronizza ora da Booking (iCal)", lines 713-717.
SyncAll(FeedSet) ==
    LET rooms == DOMAIN GetIcalMap(ical_endpoints)
    IN \E items \in IterationOrders(rooms), outcomes \in [rooms -> Outcomes(FeedSet)] :
        LET r == SyncItems([bookings |-> bookings, seq |-> seq, pairs |-> {},
                            total |-> 0, runs |-> <<>>], items, outcomes)
        IN /\ r.seq <= MaxId
           /\ bookings' = r.bookings
           /\ seq' = r.seq
           /\ imported' = imported \cup r.pairs
           /\ last' = [op |-> "sync_all", runs |-> r.runs, count_total |-> r.total]
           /\ UNCHANGED <<deleted, ical_endpoints>>

NextSync ==
    \/ SaveUrls
    \/ SyncAll(SyncAllFeeds)
    \/ NewBookingSubmit(SyncForms)
    \/ EditSubmit(SyncForms)
    \/ DeleteSubmit

SpecSync == Init /\ [][NextSync]_vars

\* ------------------------------------------------------------------ claims
\* What fetch_bookings() with no filter returns, as the caller reads it: the
\* dates parsed back.
RowOut(b) ==
    [b EXCEPT !.check_in = ParseDate(@), !.check_out = ParseDate(@)]

FetchAll == {RowOut(b) : b \in FetchBookings(bookings, NoDate, NoDate, NullStr, NullStr, NullText)}

\* C1: no two stored bookings were imported for the same event (uid), whatever
\* edits, creates and syncs happened in between.
C1_NoSecondBookingForEvent ==
    \A p, q \in imported :
        (p[2] = q[2] /\ p[1] # q[1])
            => ~(p[1] \in Ids(bookings) /\ q[1] \in Ids(bookings))

\* C2: a run of import_ics_for_room right after a run for the same room and the
\* same feed returns 0 and leaves the bookings as they were.
C2_SecondRunImportsNothing ==
    [][(/\ last.op = "import_ics_for_room"
        /\ last'.op = "import_ics_for_room"
        /\ last'.room = last.room
        /\ last'.feed = last.feed)
          => (last'.ret = 0 /\ bookings' = bookings)]_vars

\* C2 witness: a second run that returned 0 on a feed whose events are stored,
\* the feed holding an event without uid or two events of one uid.
C2_Witness ==
    /\ last.op = "import_ics_for_room"
    /\ last.rerun
    /\ last.ret = 0
    /\ \E e \in last.feed :
          \E b \in bookings : b.external_uid = EventUid(last.room, e)
    /\ \/ \E e \in last.feed : e.uid = NullText
       \/ \E e, f \in last.feed : e # f /\ e.uid = f.uid

\* C3: no two bookings share a non-null (external_source, external_uid) pair.
C3_UniqueProvenance ==
    \A a, b \in bookings :
        (/\ a # b
         /\ a.external_source # NullStr /\ a.external_uid # NullText
         /\ b.external_source # NullStr /\ b.external_uid # NullText)
            => ~(a.external_source = b.external_source
                 /\ a.external_uid = b.external_uid)

\* C7 as stated: no id delete_booking was ever asked for is stored again.
C7_AskedIdNeverStored ==
    \A id \in deleted.asked : id \notin {b.id : b \in FetchAll}

\* C7: an id whose row delete_booking removed is in no later query result and
\* in no later conflict list, and a delete of an absent id changes no row.
C7_RemovedIdNeverReturns ==
    /\ [](\A id \in deleted.removed :
            /\ id \notin {b.id : b \in FetchAll}
            /\ \A ci, co \in Days, room \in {"Camera 1", "Camera 2", "Suite"} :
                  id \notin Ids(Conflicts(bookings, ci, co, room, NoId)))
    /\ [][(last'.op = "delete_booking" /\ last'.id \notin Ids(bookings))
             => bookings' = bookings]_vars

\* C7 witness: an id was removed and a booking was created afterwards.
C7_Witness ==
    /\ deleted.removed # {}
    /\ \E b \in bookings : \E id \in deleted.removed : b.id > id

\* C8: the row fetch_bookings() returns for the id insert_booking returned
\* holds the value given for every key of the dict.
C8_InsertRoundTrip ==
    last.op = "insert_booking" =>
        /\ Cardinality({b \in FetchAll : b.id = last.ret}) = 1
        /\ \A b \in FetchAll :
              b.id = last.ret => \A k \in DOMAIN last.data : b[k] = last.data[k]

\* C8 witness: an insert of a dict that carries a provenance pair.
C8_Witness ==
    /\ last.op = "insert_booking"
    /\ "external_uid" \in DOMAIN last.data
    /\ \E b \in FetchAll : b.id = last.ret /\ b.external_uid = <<"uid", "u1">>

\* C9: update_booking(id, data) leaves every other row as it was, keeps the
\* set of ids, and changes nothing when no row has that id.
C9_UpdateFrame ==
    [][last'.op = "update_booking" =>
          /\ \A b \in bookings : b.id # last'.id => b \in bookings'
          /\ Ids(bookings') = Ids(bookings)
          /\ Cardinality(bookings') = Cardinality(bookings)
          /\ last'.id \notin Ids(bookings) => bookings' = bookings]_vars

\* C9 witness: an update rewrote its row while another, different row is stored.
C9_Witness ==
    /\ last.op = "update_booking"
    /\ \E b \in bookings : b.id = last.id /\ b.room = last.data.room
    /\ \E b \in bookings : b.id # last.id /\ b.room # last.data.room

\* The candidates has_overlap is asked about.
QueryRooms == {"Camera 1", "Camera 2", "Suite"}

\* C4: has_overlap lists exactly the bookings of the room that are not
\* cancelled, are not the excluded id, begin before the candidate's check-out
\* and end after its check-in; the flag is true iff the list is not empty.
C4_OverlapIsHalfOpenIntersection ==
    \A ci, co \in Days, room \in QueryRooms, ex \in 0..MaxId :
        LET got == Conflicts(bookings, ci, co, room, ex)
        IN /\ {RowOut(b) : b \in got} =
                {b \in FetchAll :
                    /\ b.room = room
                    /\ b.status # "Annullata"
                    /\ ex # NoId => b.id # ex
                    /\ b.check_in < co
                    /\ b.check_out > ci}
           /\ \A b \in FetchAll :
                 (b.room = room /\ b.check_out = ci) => b.id \notin Ids(got)

\* C4 witness: a stored stay conflicts with a candidate, and a candidate that
\* checks in on its check-out day has no conflict; a cancelled stay that
\* intersects is not listed.
C4_Witness ==
    /\ \E b \in FetchAll :
          /\ b.status # "Annullata"
          /\ Conflicts(bookings, b.check_in, b.check_out, b.room, NoId) # {}
          /\ Conflicts(bookings, b.check_in, b.check_out, b.room, b.id) = {}
          /\ b.check_out < 4
          /\ Conflicts(bookings, b.check_out, 4, b.room, NoId) = {}
    /\ \E b \in FetchAll : b.status = "Annullata"

\* C5: a form that passes validation is written, conflict or not: the row of
\* the returned (or edited) id holds what the form held.
C5_OverlapNeverBlocksTheWrite ==
    (/\ last.op \in {"new_booking_form", "edit_form"}
     /\ last.data.guest_name # <<>>
     /\ last.data.check_out > last.data.check_in)
        => \E b \in FetchAll :
              /\ b.id = (IF last.op = "edit_form" THEN last.id ELSE last.ret)
              /\ \A k \in DOMAIN last.data : b[k] = last.data[k]

\* C5 witness: a new booking was written although has_overlap reported a
\* conflict and the warning was shown.
C5_Witness ==
    /\ last.op = "new_booking_form"
    /\ last.warned
    /\ last.conflicts # {}
    /\ \E b \in bookings : b.id = last.ret /\ b.id \notin last.conflicts

\* C6: whenever occupancy_matrix returns its grid, cell (d, room) is 1 iff a
\* stored booking of the room has check_in <= d < check_out, for every d of
\* [period_start, period_end] and every requested room.
C6_OccupancyCells ==
    \A ps, pe \in Days, rooms \in SUBSET {"Camera 1", "Camera 2"} :
        LET r == OccupancyMatrix(bookings, ps, pe, rooms)
        IN r.error = "" =>
              \A d \in ps..pe, room \in rooms :
                  (r.mat[d][room] = 1) <=>
                      \E b \in FetchAll :
                          b.room = room /\ b.check_in <= d /\ d < b.check_out

\* case-insensitive "contains"
Contains(col, text) ==
    /\ col # NullText
    /\ \E i \in 0..(Len(col) - Len(text)) :
          \A j \in 1..Len(text) : Lower(col[i + j]) = Lower(text[j])

Searches == {NullText, <<"m", "a">>, <<"A", "N">>, <<"_">>, <<"x">>}

\* C10: fetch_bookings returns exactly the bookings that satisfy every
\* supplied filter: the date window, the status, the room and the text
\* contained in guest_name, email, phone or notes.
C10_FiltersAreConjunctive ==
    \A start, end \in {NoDate} \cup Days,
       status \in {NullStr, "Confermata", "Annullata"},
       room \in {NullStr, "Camera 1", "Suite"},
       search \in Searches :
        {RowOut(b) : b \in FetchBookings(bookings, start, end, status, room, search)}
          = {b \in FetchAll :
                /\ start # NoDate => b.check_out > start
                /\ end # NoDate => b.check_in < end
                /\ status # NullStr => b.status = status
                /\ room # NullStr => b.room = room
                /\ search # NullText =>
                      \/ Contains(b.guest_name, search)
                      \/ Contains(b.email, search)
                      \/ Contains(b.phone, search)
                      \/ Contains(b.notes, search)}

\* C11: rooms_list() holds every room of a stored booking and every default
\* name, and no name twice.
C11_RoomsListCoversAndIsDuplicateFree ==
    LET rooms == RoomsList(bookings)
    IN /\ \A b \in bookings : InSeq(b.room, rooms)
       /\ \A i \in DOMAIN Defaults : InSeq(Defaults[i], rooms)
       /\ \A i, j \in DOMAIN rooms : i # j => rooms[i] # rooms[j]

\* C11 witness: a default room and a room outside the defaults are both in use.
C11_Witness ==
    /\ \E b \in bookings : b.room = "Suite"
    /\ \E b \in bookings : b.room = "Camera 1"
    /\ RoomsList(bookings) = <<"Camera 1", "Suite", "Camera 2", "Appartamento">>

\* C12: a run of import_ics_for_room keeps every stored booking as it was,
\* whatever the feed holds now; the store after the run is the store before
\* plus the bookings the run inserted under new ids.
C12_SyncIsAppendOnly ==
    [][last'.op = "import_ics_for_room" =>
          /\ bookings \subseteq bookings'
          /\ \A b \in bookings' \ bookings : b.id \notin Ids(bookings)
          /\ Cardinality(bookings' \ bookings) = last'.ret]_vars

\* C12 witness: the feed now holds event u1 with other dates, or no longer
\* holds it, and the booking imported for u1 still has the dates it came with.
C12_Witness ==
    /\ last.op = "import_ics_for_room"
    /\ last.feed \in {{EventU1Moved}, {EventNoUid, EventNoEnd}}
    /\ \E b \in bookings :
          /\ b.external_uid = EventU1.uid
          /\ b.room = last.room
          /\ b.check_in = IsoDate(EventU1.begin)
          /\ b.check_out = IsoDate(EventU1.end)

\* The sum of the counts the runs of a sync-all returned.
RECURSIVE SumRet(_)
SumRet(runs) == IF runs = <<>> THEN 0 ELSE Head(runs).ret + SumRet(Tail(runs))

\* C13: in a sync-all every configured room is synced once; a room whose
\* download or parse failed returns 0 and leaves the store as it found it,
\* every other room's events are imported, each run starts from the store the
\* run before it left, and the reported total is the sum of the counts.
C13_FailureIsIsolatedPerRoom ==
    last.op = "sync_all" =>
        LET runs == last.runs
            configured == DOMAIN GetIcalMap(ical_endpoints)
        IN /\ {runs[i].room : i \in DOMAIN runs} = configured
           /\ Len(runs) = Cardinality(configured)
           /\ \A i \in DOMAIN runs :
                 /\ runs[i].failed =>
                       (runs[i].ret = 0 /\ runs[i].after = runs[i].before)
                 /\ ~runs[i].failed =>
                       \A k \in DOMAIN runs[i].evs :
                           (runs[i].evs[k].begin # NoDate /\ runs[i].evs[k].end # NoDate)
                              => \E b \in runs[i].after :
                                    /\ b.external_source = "booking_com_ical"
                                    /\ b.external_uid = EventUid(runs[i].room, runs[i].evs[k])
                 /\ i > 1 => runs[i].before = runs[i - 1].after
           /\ runs # <<>> => bookings = runs[Len(runs)].after
           /\ last.count_total = SumRet(runs)

\* C13 witness: one room's download failed and a room synced after it
\* imported a booking.
C13_Witness ==
    /\ last.op = "sync_all"
    /\ \E i, j \in DOMAIN last.runs :
          /\ i < j
          /\ last.runs[i].failed
          /\ ~last.runs[j].failed
          /\ last.runs[j].ret = 1
          /\ last.count_total = 1

\* C16: ical_endpoints holds one row per room; saving the form sets the URL
\* of every room whose field is not blank to the field's stripped text and
\* leaves the other rooms' URLs alone; no other handler changes the map, and
\* no handler removes a room from it.
C16_OneUrlPerRoomLastUpsertWins ==
    /\ [](\A a, b \in ical_endpoints : a.room = b.room => a = b)
    /\ [][LET old == GetIcalMap(ical_endpoints)
              new == GetIcalMap(ical_endpoints')
          IN /\ DOMAIN old \subseteq DOMAIN new
             /\ last'.op # "ical_form" => ical_endpoints' = ical_endpoints
             /\ last'.op = "ical_form" =>
                   \A room \in DOMAIN last'.url_inputs :
                       IF Strip(last'.url_inputs[room]) # <<>>
                       THEN /\ room \in DOMAIN new
                            /\ new[room] = Strip(last'.url_inputs[room])
                       ELSE /\ room \in DOMAIN new <=> room \in DOMAIN old
                            /\ room \in DOMAIN old => new[room] = old[room]]_vars

\* C16 witness: a room that had a URL was given another one, a second room
\* whose field was left blank kept its URL.
C16_Witness ==
    /\ last.op = "ical_form"
    /\ \E r1, r2 \in DOMAIN last.ical_map :
          /\ r1 # r2
          /\ last.ical_map[r1] = <<"a">>
          /\ GetIcalMap(ical_endpoints)[r1] = <<"b">>
          /\ last.url_inputs[r2] = <<" ">>
          /\ GetIcalMap(ical_endpoints)[r2] = last.ical_map[r2]

\* C19: no two stored bookings carry the same feed uid, whatever their rooms;
\* in a sync-all, an event whose uid is stored for another room adds nothing.
C19_DedupIgnoresTheRoom ==
    /\ \A a, b \in bookings :
          (/\ a.external_source = "booking_com_ical"
           /\ b.external_source = "booking_com_ical"
           /\ a.external_uid = b.external_uid) => a.room = b.room /\ a.id = b.id
    /\ last.op = "sync_all" =>
          \A i \in DOMAIN last.runs : \A k \in DOMAIN last.runs[i].evs :
              LET run == last.runs[i]
                  uid == run.evs[k].uid
                  Held(bks) == {b \in bks : /\ b.external_source = "booking_com_ical"
                                            /\ b.external_uid = uid}
              IN (\E b \in Held(run.before) : b.room # run.room)
                    => Held(run.after) = Held(run.before)

\* C19 witness: a room's feed held an event whose uid was stored for another
\* room, and the run imported nothing.
C19_Witness ==
    /\ last.op = "sync_all"
    /\ \E i \in DOMAIN last.runs :
          /\ ~last.runs[i].failed
          /\ last.runs[i].ret = 0
          /\ \E k \in DOMAIN last.runs[i].evs : \E b \in last.runs[i].before :
                /\ b.external_source = "booking_com_ical"
                /\ b.external_uid = last.runs[i].evs[k].uid
                /\ b.room # last.runs[i].room
                /\ b \in bookings

\* C14: every stored booking has check_out after check_in.
C14_StaysHavePositiveLength ==
    \A b \in FetchAll : b.check_out > b.check_in

\* C15: ids are unique, and a row that insert_booking or the import adds gets
\* an id greater than every id assigned before it, those of deleted rows
\* included (every id ever assigned is still stored or was removed).
C15_IdsAreFreshAndIncreasing ==
    /\ [](\A a, b \in bookings : a.id = b.id => a = b)
    /\ [][\A b \in bookings' :
              b.id \notin Ids(bookings) =>
                  \A i \in Ids(bookings) \cup deleted.removed : b.id > i]_vars

\* C15 witness: the table was emptied by a delete and the next insert got a
\* higher id than the removed one.
C15_Witness ==
    /\ last.op = "insert_booking"
    /\ Ids(bookings) = {last.ret}
    /\ \E i \in deleted.removed : last.ret = i + 1

\* C17: for every period and every set of requested rooms occupancy_matrix
\* returns a grid with one row per date of the period and one column per
\* requested room.
C17_GridShapeAndNoFailure ==
    \A ps, pe \in Days, rooms \in SUBSET {"Camera 1", "Camera 2"} :
        ps <= pe =>
            LET r == OccupancyMatrix(bookings, ps, pe, rooms)
            IN /\ r.error = ""
               /\ DOMAIN r.mat = ps..pe
               /\ \A d \in ps..pe : DOMAIN r.mat[d] = rooms

\* C18: the count import_ics_for_room returns is the number of rows the run
\* added; every added row has the fixed import values, the synced room and
\* the dates and uid of an event of the feed that has both dates; an event
\* with both dates adds one row when its uid was not stored and none when it
\* was; an event that lacks a date adds none.
C18_CountEqualsRowsAdded ==
    [][last'.op = "import_ics_for_room" =>
          LET added == bookings' \ bookings
              dated == {e \in last'.feed : e.begin # NoDate /\ e.end # NoDate}
              Uid(e) == EventUid(last'.room, e)
              Held(bks, uid) == {b \in bks : /\ b.external_source = "booking_com_ical"
                                             /\ b.external_uid = uid}
          IN /\ last'.ret = Cardinality(bookings') - Cardinality(bookings)
             /\ last'.ret = Cardinality(added)
             /\ \A b \in added :
                   /\ b.status = "Confermata"
                   /\ b.source = "Booking"
                   /\ b.guests = 2
                   /\ b.price = 0
                   /\ b.room = last'.room
                   /\ b.external_source = "booking_com_ical"
                   /\ \E e \in dated :
                         /\ b.external_uid = Uid(e)
                         /\ RowOut(b).check_in = e.begin
                         /\ RowOut(b).check_out = e.end
             /\ \A e \in dated :
                   Cardinality(Held(added, Uid(e))) =
                       IF Held(bookings, Uid(e)) # {} THEN 0 ELSE 1
             /\ \A e \in last'.feed \ dated :
                   (\A d \in dated : Uid(d) # Uid(e)) => Held(added, Uid(e)) = {}]_vars

\* C18 witness: a run over a feed with an event without UID and an event
\* without end date returned 1: the first was stored under the synthesized
\* key, the second was skipped.
C18_Witness ==
    /\ last.op = "import_ics_for_room"
    /\ last.feed = {EventNoUid, EventNoEnd}
    /\ last.ret = 1
    /\ \E b \in bookings :
          /\ b.external_uid = <<"syn", last.room, EventNoUid.begin, EventNoUid.end>>
          /\ b.guest_name = OspiteBooking
    /\ \A b \in bookings : b.external_uid # EventNoEnd.uid

====
